---- MODULE Spec2Model ----
(***************************************************************************)
(* A model of the account / session core of the magic_tales back end:      *)
(*   - db.transaction_context, the unit of work every mutating handler     *)
(*     wraps its body in (src/db.py);                                       *)
(*   - the validation-code flows of the session and user controllers       *)
(*     (register, register-validate, resend-validation-code,               *)
(*     recover-password, recover-password-validate, update,                *)
(*     change-email-validate).                                             *)
(*                                                                         *)
(* Three specifications share the variables:                               *)
(*   SpecTx    one persistence session driven through transaction_context  *)
(*             scopes, nested or not, with bodies that write and raise;     *)
(*   Spec      the handlers, one request at a time (each handler is one     *)
(*             atomic action);                                              *)
(*   SpecConc  the handlers of two concurrent requests, each with its own   *)
(*             session, interleaved at their await points.                  *)
(***************************************************************************)
EXTENDS Integers, Sequences, FiniteSets, Bags, TLC

\* ------------------------------------------------------------------ bounds
\* Nesting depth of transaction_context scopes on one session.
MaxDepth == 2
\* Rows a run of SpecTx may write.
MaxWrites == 3
\* Transactions a session may go through in a run of SpecTx.
MaxTx == 3
\* Identities the users table may hold.
MaxUsers == 2
\* How many of the values random.randint(100000, 999999) can return are drawn.
NumCodes == 1
\* Requests in flight at the same time in SpecConc.
NumReq == 2
\* Requests a run of SpecConc starts.
MaxStarted == 3
\* Requests the event loop of SpecLoop handles at the same time.
NumTasks == 2
\* Rows the profiles table and the stories table of SpecStory come to hold.
MaxProfiles == 2
MaxStories == 2
\* Readings of the clock within one second (datetime.now has microseconds,
\* the exp claim of a token has whole seconds).
TicksPerSecond == 2
\* The life of a token, timedelta(minutes=JWT_EXP_TIME_IN_MINUTES), in
\* seconds: a whole number of them, here a short one.
TTL == 2

\* ------------------------------------------------------- program constants
\* random.randint(100000, 999999)
MinCode == 100000
MaxCode == 999999

\* ------------------------------------------------------------ input values
Emails == {"a@x.com", "b@x.com"}
Usernames == {"alice", "bob"}
\* A plaintext password: its first 72 bytes (all of it, when it is shorter)
\* and the bytes that follow them.
Pw(head, rest) == [head |-> head, rest |-> rest]
Passwords == {Pw("pw1", "")}
\* An uploaded image: "ok" (no image, or one whose extension is accepted: the
\* file saved is not part of the store) or "rejected" (another extension).
Images == {"ok", "rejected"}

\* A nullable value: None, or Some(v).
None == <<>>
Some(v) == <<v>>

\* --------------------------------------------------------------- variables
VARIABLES
    \* SpecTx: the session of src/db.py
    stack,      \* open transaction_context scopes, innermost last
    exc,        \* "none" | "body" (raised in the innermost body) | "escaped"
    cur,        \* the session's transaction (0: session.in_transaction() is false)
    nextTx,     \* the next transaction the session begins
    nextWrite,  \* the next row a body writes
    pending,    \* rows written in the session's transaction, not yet committed
    db,         \* committed rows
    commits,    \* commits[t]: how often transaction t was committed
    rollbacks,  \* rollbacks[t]: how often transaction t was rolled back
    txlast,     \* what the last exit of a transaction_context scope did
    closed,     \* the request ended and get_session closed the session
    \* Spec, SpecConc: the store and the requests
    free_plan,  \* the plans table holds the row named "Free Plan"
    users,      \* the users table: users[id] is the row with primary key id
    ghost,      \* per identity: which flow generated the stored code, which
                \* codes were consumed since, and how often
    resp,       \* the last request: what was asked and what was answered
    \* SpecConc: the requests in flight
    reqs,       \* the requests in their body, each with what it read and decided
    started,    \* requests started so far
    \* SpecHash: the password hasher
    hp,         \* two plaintexts, the hash made of the second, the verification
                \* of the first against it
    \* SpecLoop: the event loop and the worker pool
    tasks,      \* tasks[t]: the request task t handles and where it stands
    loop,       \* the task whose code the event loop thread is running (0: none,
                \* the loop is free to resume any task)
    \* SpecAuth: tokens, the clock and the middlewares
    now,        \* the clock, in ticks
    jar,        \* the token the client holds (None: none yet)
    out,        \* the last exchange: the request, what check_token and the
                \* handler did with it, and the response the client received
    \* SpecStory: the profiles and the stories
    profiles,   \* the profiles table: profiles[id] is the user_id of the row
    stories,    \* the stories table: the rows, each with its id and profile_id
    sout,       \* the last request on a story and its answer
    \* SpecErr: a failure outside the classified errors
    err         \* the exception raised, the handler it was raised in and the
                \* response the client received

txvars == <<stack, exc, cur, nextTx, nextWrite, pending, db, commits, rollbacks, txlast, closed>>

appvars == <<free_plan, users, ghost, resp, reqs, started>>

authvars == <<now, jar, out>>

storyvars == <<profiles, stories, sout>>

errvars == <<err>>

restvars == <<storyvars, errvars>>

auxvars == <<hp, tasks, loop, authvars, restvars>>

vars == <<txvars, appvars, auxvars>>

Writes == 1..MaxWrites
Txs == 1..MaxTx

NoExit == [kind |-> "none", joined |-> FALSE, tx |-> 0, own |-> 0, active |-> FALSE,
           writes |-> {}, pend |-> {}, committed |-> FALSE, rolledback |-> FALSE,
           nested |-> FALSE]

InitTxVars ==
    /\ stack = <<>>
    /\ exc = "none"
    /\ cur = 0
    /\ nextTx = 1
    /\ nextWrite = 1
    /\ pending = {}
    /\ db = {}
    /\ commits = [t \in Txs |-> 0]
    /\ rollbacks = [t \in Txs |-> 0]
    /\ txlast = NoExit
    /\ closed = FALSE

NoResp == [op |-> "none", status |-> 0, detail |-> "", uid |-> 0, code |-> 0,
           checked |-> FALSE, mails |-> <<>>, created |-> 0, retry |-> FALSE,
           arg |-> <<>>]

NoHash == [phase |-> "none"]

NoTask == [handler |-> "none"]

InitLoop ==
    /\ tasks = [t \in 1..NumTasks |-> NoTask]
    /\ loop = 0

NoExchange == [path |-> <<>>]

InitAuthVars ==
    /\ now = 0
    /\ jar = None
    /\ out = NoExchange

NoStoryRequest == [op |-> "none"]

InitStoryVars ==
    /\ profiles = <<>>
    /\ stories = {}
    /\ sout = NoStoryRequest

NoErr == [phase |-> "none"]

InitRest ==
    /\ InitStoryVars
    /\ err = NoErr

InitAux ==
    /\ hp = NoHash
    /\ InitLoop
    /\ InitAuthVars
    /\ InitRest

InitApp ==
    /\ free_plan \in BOOLEAN
    /\ users = <<>>
    /\ ghost = <<>>
    /\ resp = NoResp
    /\ reqs = EmptyBag
    /\ started = 0

InitTx ==
    /\ InitTxVars
    /\ free_plan = TRUE
    /\ users = <<>>
    /\ ghost = <<>>
    /\ resp = NoResp
    /\ reqs = EmptyBag
    /\ started = 0
    /\ InitAux

\* ---------------------------------------------------- the session (db.py)
\* session.in_transaction()
in_transaction == cur # 0

\* A scope that called session.begin() tests, at its exit, whether the
\* transaction it began is still the session's active one.
transaction_is_active_unchecked(frame) == TRUE

transaction_is_active(frame) == cur # 0 /\ cur = frame.txn

Top == stack[Len(stack)]
Pop == SubSeq(stack, 1, Len(stack) - 1)

\* A statement of a body (or of the handler around the scopes) that uses the
\* session: the session begins a transaction by itself when none is active.
session_autobegin ==
    IF cur = 0 THEN /\ cur' = nextTx
                    /\ nextTx' = nextTx + 1
               ELSE UNCHANGED <<cur, nextTx>>

\* A commit of transaction t that succeeds (session.commit() commits the
\* session's transaction, the exit of session.begin() the one it began): the
\* rows pending in it become durable and it ends.
session_commit_ok(t) ==
    /\ commits' = [commits EXCEPT ![t] = @ + 1]
    /\ IF t = cur
          THEN /\ db' = db \cup pending
               /\ pending' = {}
               /\ cur' = 0
          ELSE UNCHANGED <<db, pending, cur>>
    /\ UNCHANGED rollbacks

\* A rollback of transaction t: the rows pending in it are dropped and it ends.
session_rollback(t) ==
    /\ rollbacks' = [rollbacks EXCEPT ![t] = @ + 1]
    /\ IF t = cur
          THEN /\ pending' = {}
               /\ cur' = 0
          ELSE UNCHANGED <<pending, cur>>
    /\ UNCHANGED <<db, commits>>

session_untouched == UNCHANGED <<cur, pending, db, commits, rollbacks>>

\* `async with transaction_context(session):` up to its yield.
transaction_context_enter ==
    /\ ~closed /\ exc = "none"
    /\ Len(stack) < MaxDepth
    /\ IF ~in_transaction
          THEN /\ nextTx <= MaxTx
               /\ cur' = nextTx
               /\ nextTx' = nextTx + 1
               /\ stack' = Append(stack, [owned |-> TRUE, txn |-> nextTx, writes |-> {}])
          ELSE /\ stack' = Append(stack, [owned |-> FALSE, txn |-> cur, writes |-> {}])
               /\ UNCHANGED <<cur, nextTx>>
    /\ UNCHANGED <<exc, nextWrite, pending, db, commits, rollbacks, txlast, closed, appvars, auxvars>>

\* A write of a body (session.add, an attribute assignment flushed later), or
\* of the handler outside every scope.
body_write ==
    /\ ~closed /\ exc = "none"
    /\ nextWrite <= MaxWrites
    /\ cur # 0 \/ nextTx <= MaxTx
    /\ session_autobegin
    /\ pending' = pending \cup {nextWrite}
    /\ nextWrite' = nextWrite + 1
    /\ stack' = [i \in 1..Len(stack) |-> [stack[i] EXCEPT !.writes = @ \cup {nextWrite}]]
    /\ UNCHANGED <<exc, db, commits, rollbacks, txlast, closed, appvars, auxvars>>

\* A read through the session outside every scope (session.refresh after the
\* scope, a query before it): it begins a transaction no scope owns.
session_use ==
    /\ ~closed /\ exc = "none"
    /\ stack = <<>>
    /\ cur = 0 /\ nextTx <= MaxTx
    /\ session_autobegin
    /\ UNCHANGED <<stack, exc, nextWrite, pending, db, commits, rollbacks, txlast, closed, appvars, auxvars>>

\* The body raises (an HTTPException of a business rule, an error of send_email).
body_raise ==
    /\ ~closed /\ exc = "none"
    /\ stack # <<>>
    /\ exc' = "body"
    /\ UNCHANGED <<stack, cur, nextTx, nextWrite, pending, db, commits, rollbacks, txlast, closed, appvars, auxvars>>

Exit(kind, frame, act, committed, rolledback) ==
    [kind |-> kind, joined |-> ~frame.owned, tx |-> cur, own |-> frame.txn,
     active |-> act, writes |-> frame.writes, pend |-> pending,
     committed |-> committed, rolledback |-> rolledback,
     nested |-> txlast.nested \/ (~frame.owned /\ Len(stack) >= 2)]

\* The scope ends without an exception. commit_joined: whether the branch that
\* joined a transaction commits it (db.py, lines 40-45).
exit_normal(commit_joined) ==
    /\ ~closed /\ exc = "none"
    /\ stack # <<>>
    /\ stack' = Pop
    /\ LET frame == Top
           act == IF frame.owned THEN transaction_is_active(frame) ELSE in_transaction
           commit == IF frame.owned THEN act ELSE act /\ commit_joined
           t == IF frame.owned THEN frame.txn ELSE cur
       IN IF commit
             THEN \/ /\ session_commit_ok(t)
                     /\ exc' = "none"
                     /\ txlast' = Exit("normal", frame, act, TRUE, FALSE)
                  \/ \* the commit fails: rollback, and the error is raised
                     /\ session_rollback(t)
                     /\ exc' = "escaped"
                     /\ txlast' = Exit("commit_failed", frame, act, FALSE, TRUE)
             ELSE /\ session_untouched
                  /\ exc' = "none"
                  /\ txlast' = Exit("normal", frame, act, FALSE, FALSE)
    /\ UNCHANGED <<nextTx, nextWrite, closed, appvars, auxvars>>

transaction_context_exit_leaves_commit == exit_normal(FALSE)

transaction_context_exit == exit_normal(TRUE)

\* An exception leaves the scope: the exit of session.begin() rolls its
\* transaction back when it is still active; the branch that joined a
\* transaction has no code on this path.
transaction_context_raise ==
    /\ ~closed /\ exc # "none"
    /\ stack # <<>>
    /\ stack' = Pop
    /\ exc' = "escaped"
    /\ LET frame == Top
           act == IF frame.owned THEN transaction_is_active(frame) ELSE in_transaction
       IN IF frame.owned /\ act
             THEN /\ session_rollback(frame.txn)
                  /\ txlast' = Exit("raise", frame, act, FALSE, TRUE)
             ELSE /\ session_untouched
                  /\ txlast' = Exit("raise", frame, act, FALSE, FALSE)
    /\ UNCHANGED <<nextTx, nextWrite, closed, appvars, auxvars>>

\* The code around a scope catches the exception that left it and goes on.
caller_catches ==
    /\ ~closed /\ exc = "escaped"
    /\ exc' = "none"
    /\ UNCHANGED <<stack, cur, nextTx, nextWrite, pending, db, commits, rollbacks, txlast, closed, appvars, auxvars>>

\* The request ends: get_session closes the session, which drops a
\* transaction that is still open.
get_session_close ==
    /\ ~closed /\ stack = <<>>
    /\ closed' = TRUE
    /\ IF cur # 0 THEN session_rollback(cur) ELSE session_untouched
    /\ UNCHANGED <<stack, exc, nextTx, nextWrite, txlast, appvars, auxvars>>

NextTx ==
    \/ transaction_context_enter
    \/ body_write
    \/ session_use
    \/ body_raise
    \/ transaction_context_exit
    \/ transaction_context_raise
    \/ caller_catches
    \/ get_session_close

SpecTx == InitTx /\ [][NextTx]_vars

\* ------------------------------------------------ claims on the unit of work

\* C1 (as stated): whenever an exception leaves a transaction_context scope,
\* whether the scope began the transaction or joined one, the exception goes on
\* to the caller and none of the rows the body wrote stays pending or becomes
\* durable: the transaction was rolled back.
C1_RaiseRollsBack ==
    txlast.kind = "raise" =>
        /\ txlast.writes \cap (pending \cup db) = {}
        /\ (txlast.active => txlast.rolledback)

\* C2 (as stated): on normal completion the scope commits if and only if it
\* began the transaction itself; a scope that joined a transaction issues no
\* commit and leaves it open.
C2_CommitsOnlyIfOwner ==
    txlast.kind = "normal" =>
        /\ (txlast.committed <=> ~txlast.joined)
        /\ (txlast.joined /\ txlast.active /\ stack = <<>> /\ exc = "none" /\ ~closed
                => cur = txlast.tx)

\* C2 (amended): on normal completion the scope commits exactly when the
\* transaction is still active at the end of the body, whether it began the
\* transaction (the exit of session.begin()) or joined it (session.commit()):
\* the rows pending at that point are durable and that transaction was
\* committed once.
C2_CommitsWhenActive ==
    txlast.kind = "normal" =>
        /\ (txlast.committed <=> txlast.active)
        /\ (txlast.committed =>
               /\ txlast.pend \subseteq db
               /\ commits[txlast.tx] = 1)

\* C2 witness: a scope that joined a transaction ended normally with rows
\* pending, and committed them.
C2_JoinedCommitted ==
    /\ txlast.kind = "normal" /\ txlast.joined /\ txlast.committed
    /\ txlast.pend # {} /\ txlast.pend \subseteq db

\* C3: no transaction is committed more than once or rolled back more than
\* once, however the scopes nest and however the inner bodies end.
C3_NoDoubleCommitOrRollback ==
    \A t \in Txs : commits[t] <= 1 /\ rollbacks[t] <= 1 /\ commits[t] + rollbacks[t] <= 1

\* C3 witness: an inner scope ended inside an outer one that had begun the
\* transaction, the outer scope ended normally too, and the outer transaction
\* was committed exactly once.
C3_NestedCommittedOnce ==
    /\ stack = <<>> /\ txlast.nested
    /\ txlast.kind = "normal" /\ ~txlast.joined
    /\ commits[txlast.own] = 1

\* ------------------------------------------------------- the users table
Ids(tbl) == 1..Len(tbl)

\* User(...): a new row. active is not given and takes the column's default.
User(username, email, password, validation_code) ==
    [username |-> username, email |-> Some(email), password |-> password,
     new_email |-> None, validation_code |-> Some(validation_code), active |-> FALSE]

\* select(User).where(User.email == email): the id of the row, 0 when none.
by_email(tbl, email) ==
    IF \E i \in Ids(tbl) : tbl[i].email = Some(email)
       THEN CHOOSE i \in Ids(tbl) : tbl[i].email = Some(email)
       ELSE 0

\* select(User).where(User.username == username)
by_username(tbl, username) ==
    IF \E i \in Ids(tbl) : tbl[i].username = username
       THEN CHOOSE i \in Ids(tbl) : tbl[i].username = username
       ELSE 0

\* The constraints of the table: username and email are unique, email is not
\* null. A flush that breaks one raises an IntegrityError.
constraints_ignored(tbl) == TRUE

constraints_hold(tbl) ==
    /\ \A i \in Ids(tbl) : tbl[i].email # None
    /\ \A i, j \in Ids(tbl) : i # j =>
          /\ tbl[i].username # tbl[j].username
          /\ tbl[i].email # tbl[j].email

\* ------------------------------------------------------------- the services
\* bcrypt.gensalt(): the salts that can be drawn.
gensalt == {"salt1", "salt2"}

\* bcrypt.hashpw(password, salt): the salt is kept in the hash, and only the
\* first 72 bytes of the password enter it.
hashpw(password, salt) == <<"bcrypt", salt, password.head>>

\* bcrypt.checkpw(password, hashed_password): the password hashed again with
\* the salt kept in the hash gives the same hash.
checkpw(password, hashed_password) == hashpw(password, hashed_password[2]) = hashed_password

\* hash_password(password): the hashes it can return, one for each salt.
hash_password(password) == {hashpw(password, salt) : salt \in gensalt}

\* verify_password(plain_password, hashed_password)
verify_password(plain_password, hashed_password) == checkpw(plain_password, hashed_password)

\* await hash_password_async(password) in a handler: the hash hash_password
\* returns. Which salt was drawn changes nothing a handler does later, so the
\* handlers store the hash of one salt.
hash_password_async(password) == CHOOSE hashed \in hash_password(password) : TRUE

\* random.randint(lo, hi): the values drawn from lo..hi.
randint_from_zero(lo, hi) == {0} \cup {hi - i : i \in 0..(NumCodes - 2)}

randint(lo, hi) == {lo + i : i \in 0..(NumCodes - 2)} \cup {hi}

\* The codes a client submits: those that can be generated, and one that
\* never is.
SubmittedCodes == randint(MinCode, MaxCode) \cup {MinCode - 1}

\* check_validation_code(validation_code, user_validation_code)
check_validation_code_null_matches(validation_code, user_validation_code) ==
    user_validation_code = None \/ user_validation_code = Some(validation_code)

check_validation_code(validation_code, user_validation_code) ==
    IF user_validation_code # Some(validation_code) THEN FALSE ELSE TRUE

\* ------------------------------------------------------------- the handlers
\* What the body of a handler decides from the rows it read: the answer, the
\* row it adds, the attributes it assigns on row uid, the emails it sent, the
\* flow a code it generated belongs to.
NoUpd == [c \in {} |-> None]

Plan(status, detail, uid, checked, ins, upd, mails, flow) ==
    [status |-> status, detail |-> detail, uid |-> uid, checked |-> checked,
     ins |-> ins, upd |-> upd, mails |-> mails, flow |-> flow]

Fail(status, detail, uid, checked, mails) ==
    Plan(status, detail, uid, checked, <<>>, NoUpd, mails, "none")

\* The attributes whose assigned value differs from the loaded one: the only
\* ones the UPDATE of the flush sets.
Changed(row, upd) == [c \in {k \in DOMAIN upd : upd[k] # row[k]} |-> upd[c]]

CodeMail(to, code) == [to |-> to, code |-> code]

\* The body below going on when send_email raises.
register_ignores_mail_failure(tbl, fp, email, username, password, validation_code, mail_ok) ==
    IF ~fp THEN Fail(404, "Free plan doesn't exist", 0, FALSE, <<>>)
    ELSE IF by_username(tbl, username) # 0
        THEN Fail(422, "The username already exists", 0, FALSE, <<>>)
    ELSE IF by_email(tbl, email) # 0
        THEN Fail(422, "The email already exists", 0, FALSE, <<>>)
    ELSE Plan(200, "", 0, FALSE,
              <<User(username, email, hash_password_async(password), validation_code)>>,
              NoUpd, <<CodeMail(Some(email), validation_code)>>, "register")

\* POST /session/register
register_body(tbl, fp, email, username, password, validation_code, mail_ok) ==
    IF ~fp THEN Fail(404, "Free plan doesn't exist", 0, FALSE, <<>>)
    ELSE IF by_username(tbl, username) # 0
        THEN Fail(422, "The username already exists", 0, FALSE, <<>>)
    ELSE IF by_email(tbl, email) # 0
        THEN Fail(422, "The email already exists", 0, FALSE, <<>>)
    ELSE IF ~mail_ok THEN Fail(500, "send_email", 0, FALSE, <<>>)
    ELSE Plan(200, "", 0, FALSE,
              <<User(username, email, hash_password_async(password), validation_code)>>,
              NoUpd, <<CodeMail(Some(email), validation_code)>>, "register")

\* The body below without the assignment that clears the code.
register_validation_keeps_code(tbl, email, validation_code) ==
    LET uid == by_email(tbl, email) IN
    IF uid = 0 THEN Fail(404, "User not found", 0, FALSE, <<>>)
    ELSE LET ok == check_validation_code(validation_code, tbl[uid].validation_code) IN
    IF ~ok THEN Fail(422, "Validation code is not valid", uid, ok, <<>>)
    ELSE Plan(200, "", uid, ok, <<>>, Changed(tbl[uid], [active |-> TRUE]), <<>>, "none")

\* POST /session/register-validate
register_validation_body(tbl, email, validation_code) ==
    LET uid == by_email(tbl, email) IN
    IF uid = 0 THEN Fail(404, "User not found", 0, FALSE, <<>>)
    ELSE LET ok == check_validation_code(validation_code, tbl[uid].validation_code) IN
    IF ~ok THEN Fail(422, "Validation code is not valid", uid, ok, <<>>)
    ELSE Plan(200, "", uid, ok, <<>>,
              Changed(tbl[uid], [active |-> TRUE, validation_code |-> None]),
              <<>>, "none")

\* POST /session/recover-password. Its `except Exception` catches every
\* exception of the body that is no SQLAlchemyError, the HTTPException of the
\* 404 included, and answers 500 with the text of the exception.
recover_password_body(tbl, email, validation_code, mail_ok) ==
    LET uid == by_email(tbl, email) IN
    IF uid = 0
        THEN Fail(500, "Failed to initiate password recovery: 404: User not found", 0, FALSE, <<>>)
    ELSE IF ~mail_ok THEN Fail(500, "Failed to initiate password recovery: send_email", uid, FALSE, <<>>)
    ELSE Plan(200, "", uid, FALSE, <<>>,
              Changed(tbl[uid], [validation_code |-> Some(validation_code)]),
              <<CodeMail(tbl[uid].email, validation_code)>>, "password")

\* The body below without the comparison of the two passwords.
recover_password_validation_ignores_repeat(tbl, email, new_password, repeated_new_password, validation_code) ==
    LET uid == by_email(tbl, email) IN
    IF uid = 0 THEN Fail(404, "User not found", 0, FALSE, <<>>)
    ELSE LET ok == check_validation_code(validation_code, tbl[uid].validation_code) IN
    IF ~ok THEN Fail(422, "Validation code is not valid", uid, ok, <<>>)
    ELSE Plan(200, "", uid, ok, <<>>,
              Changed(tbl[uid], [password |-> hash_password_async(new_password),
                                 validation_code |-> None]),
              <<>>, "none")

\* The body below activating the identity whose password it replaces.
recover_password_validation_activates(tbl, email, new_password, repeated_new_password, validation_code) ==
    LET uid == by_email(tbl, email) IN
    IF uid = 0 THEN Fail(404, "User not found", 0, FALSE, <<>>)
    ELSE LET ok == check_validation_code(validation_code, tbl[uid].validation_code) IN
    IF ~ok THEN Fail(422, "Validation code is not valid", uid, ok, <<>>)
    ELSE IF new_password # repeated_new_password
        THEN Fail(422, "The new password and repeated new password must be the same", uid, ok, <<>>)
    ELSE Plan(200, "", uid, ok, <<>>,
              Changed(tbl[uid], [password |-> hash_password_async(new_password),
                                 validation_code |-> None, active |-> TRUE]),
              <<>>, "none")

\* POST /session/recover-password-validate
recover_password_validation_body(tbl, email, new_password, repeated_new_password, validation_code) ==
    LET uid == by_email(tbl, email) IN
    IF uid = 0 THEN Fail(404, "User not found", 0, FALSE, <<>>)
    ELSE LET ok == check_validation_code(validation_code, tbl[uid].validation_code) IN
    IF ~ok THEN Fail(422, "Validation code is not valid", uid, ok, <<>>)
    ELSE IF new_password # repeated_new_password
        THEN Fail(422, "The new password and repeated new password must be the same", uid, ok, <<>>)
    ELSE Plan(200, "", uid, ok, <<>>,
              Changed(tbl[uid], [password |-> hash_password_async(new_password),
                                 validation_code |-> None]),
              <<>>, "none")

\* The body below with the code mailed to the requested address.
update_user_mails_new_address(tbl, user_id, email, username, image, validation_code, mail_ok) ==
    IF user_id \notin Ids(tbl) THEN Fail(404, "User not found", 0, FALSE, <<>>)
    ELSE
    LET user == tbl[user_id]
        email_block == email # None /\ email # user.email
        username_block == username # None /\ username[1] # user.username
        sent == IF email_block THEN <<CodeMail(email, validation_code)>> ELSE <<>>
        assigned ==
            [c \in (IF email_block THEN {"validation_code", "new_email"} ELSE {})
                   \cup (IF username_block THEN {"username"} ELSE {}) |->
                CASE c = "validation_code" -> Some(validation_code)
                  [] c = "new_email" -> email
                  [] c = "username" -> username[1]]
    IN
    IF email_block /\ \E i \in Ids(tbl) : i # user_id /\ tbl[i].email = email
        THEN Fail(422, "Email is in use.", user_id, FALSE, <<>>)
    ELSE IF email_block /\ ~mail_ok THEN Fail(500, "send_email", user_id, FALSE, <<>>)
    ELSE IF username_block /\ \E i \in Ids(tbl) : i # user_id /\ tbl[i].username = username[1]
        THEN Fail(422, "Username is in use.", user_id, FALSE, sent)
    ELSE IF image = "rejected"
        THEN Fail(400, "File must be .jpg, .jpeg or .png", user_id, FALSE, sent)
    ELSE Plan(200, "", user_id, FALSE, <<>>, Changed(user, assigned), sent, "email")

\* POST /user/update. email and username are None when the form leaves them
\* out. The fields name and last_name, which no other handler reads, are left
\* out of the model.
update_user_body(tbl, user_id, email, username, image, validation_code, mail_ok) ==
    IF user_id \notin Ids(tbl) THEN Fail(404, "User not found", 0, FALSE, <<>>)
    ELSE
    LET user == tbl[user_id]
        email_block == email # None /\ email # user.email
        username_block == username # None /\ username[1] # user.username
        sent == IF email_block THEN <<CodeMail(user.email, validation_code)>> ELSE <<>>
        assigned ==
            [c \in (IF email_block THEN {"validation_code", "new_email"} ELSE {})
                   \cup (IF username_block THEN {"username"} ELSE {}) |->
                CASE c = "validation_code" -> Some(validation_code)
                  [] c = "new_email" -> email
                  [] c = "username" -> username[1]]
    IN
    IF email_block /\ \E i \in Ids(tbl) : i # user_id /\ tbl[i].email = email
        THEN Fail(422, "Email is in use.", user_id, FALSE, <<>>)
    ELSE IF email_block /\ ~mail_ok THEN Fail(500, "send_email", user_id, FALSE, <<>>)
    ELSE IF username_block /\ \E i \in Ids(tbl) : i # user_id /\ tbl[i].username = username[1]
        THEN Fail(422, "Username is in use.", user_id, FALSE, sent)
    ELSE IF image = "rejected"
        THEN Fail(400, "File must be .jpg, .jpeg or .png", user_id, FALSE, sent)
    ELSE Plan(200, "", user_id, FALSE, <<>>, Changed(user, assigned), sent, "email")

\* The body below with the refusal of a wrong code left out.
change_email_validation_unchecked(tbl, user_id, validation_code) ==
    IF user_id \notin Ids(tbl) THEN Fail(404, "User not found", 0, FALSE, <<>>)
    ELSE Plan(200, "", user_id,
              check_validation_code(validation_code, tbl[user_id].validation_code), <<>>,
              Changed(tbl[user_id], [email |-> tbl[user_id].new_email,
                                     new_email |-> None,
                                     validation_code |-> None]),
              <<>>, "none")

\* The body below without the assignment that clears the pending address.
change_email_validation_keeps_pending(tbl, user_id, validation_code) ==
    IF user_id \notin Ids(tbl) THEN Fail(404, "User not found", 0, FALSE, <<>>)
    ELSE LET ok == check_validation_code(validation_code, tbl[user_id].validation_code) IN
    IF ~ok THEN Fail(422, "Validation code is not valid", user_id, ok, <<>>)
    ELSE Plan(200, "", user_id, ok, <<>>,
              Changed(tbl[user_id], [email |-> tbl[user_id].new_email,
                                     validation_code |-> None]),
              <<>>, "none")

\* POST /user/change-email-validate
change_email_validation_body(tbl, user_id, validation_code) ==
    IF user_id \notin Ids(tbl) THEN Fail(404, "User not found", 0, FALSE, <<>>)
    ELSE LET ok == check_validation_code(validation_code, tbl[user_id].validation_code) IN
    IF ~ok THEN Fail(422, "Validation code is not valid", user_id, ok, <<>>)
    ELSE Plan(200, "", user_id, ok, <<>>,
              Changed(tbl[user_id], [email |-> tbl[user_id].new_email,
                                     new_email |-> None,
                                     validation_code |-> None]),
              <<>>, "none")

\* POST /user/resend-validation-code
resend_validation_code_body(tbl, email, validation_code, mail_ok) ==
    LET uid == by_email(tbl, email) IN
    IF uid = 0 THEN Fail(404, "User not found", 0, FALSE, <<>>)
    ELSE IF ~mail_ok THEN Fail(500, "send_email", uid, FALSE, <<>>)
    ELSE Plan(200, "", uid, FALSE, <<>>,
              Changed(tbl[uid], [validation_code |-> Some(validation_code)]),
              <<CodeMail(tbl[uid].email, validation_code)>>, "register")

\* ------------------------------------------------- the end of the scope
\* The table after the flush of the plan on the table as it is now.
Flushed(tbl, plan) ==
    IF plan.ins # <<>> THEN Append(tbl, plan.ins[1])
    ELSE IF plan.uid = 0 THEN tbl
    ELSE [tbl EXCEPT ![plan.uid] =
            [c \in DOMAIN @ |-> IF c \in DOMAIN plan.upd THEN plan.upd[c] ELSE @[c]]]

\* The commit at the end of the scope succeeds.
Commits(tbl, plan) == plan.status = 200 /\ constraints_hold(Flushed(tbl, plan))

\* The answer: the body's, or the 500 of the handler's `except SQLAlchemyError`.
Status(tbl, plan) ==
    IF plan.status # 200 THEN plan.status
    ELSE IF Commits(tbl, plan) THEN 200 ELSE 500

NoGhost == [flow |-> "register", spent |-> {}, uses |-> 0]

\* The bookkeeping of the codes: a generated code opens a new round, a consumed
\* one is recorded.
GhostAfter(g, plan, op, code) ==
    IF plan.ins # <<>> THEN Append(g, NoGhost)
    ELSE IF plan.uid = 0 THEN g
    ELSE IF "validation_code" \in DOMAIN plan.upd /\ plan.upd.validation_code # None
        THEN [g EXCEPT ![plan.uid] = [flow |-> plan.flow, spent |-> {}, uses |-> 0]]
    ELSE IF plan.checked
        THEN [g EXCEPT ![plan.uid] = [flow |-> IF "validation_code" \in DOMAIN plan.upd
                                                  THEN "none" ELSE @.flow,
                                      spent |-> @.spent \cup {code},
                                      uses |-> @.uses + 1]]
    ELSE g

ValidateOps == {"register_validation", "recover_password_validation", "change_email_validation"}

\* One request, from its first read to its answer, with no other request in
\* between. arg: the fields of the request the answer is read against.
Handle(op, code, arg, body) ==
    \E plan \in {body} : \E status \in {Status(users, plan)} :
    LET done == status = 200
        uid == IF done /\ plan.ins # <<>> THEN Len(users) + 1 ELSE plan.uid
    IN
    /\ users' = IF done THEN Flushed(users, plan) ELSE users
    /\ ghost' = IF done THEN GhostAfter(ghost, plan, op, code) ELSE ghost
    /\ resp' = [op |-> op, status |-> status,
                detail |-> IF status = plan.status THEN plan.detail ELSE "SQLAlchemyError",
                uid |-> uid, code |-> code, checked |-> plan.checked,
                mails |-> plan.mails,
                created |-> IF done /\ plan.ins # <<>> THEN 1 ELSE 0,
                retry |-> /\ done /\ op \in ValidateOps
                          /\ resp.op = op /\ resp.uid = uid
                          /\ resp.status = 422 /\ ~resp.checked,
                arg |-> arg]
    /\ UNCHANGED <<free_plan, txvars, reqs, started, auxvars>>

\* What the outside decides in a request that generates a code: the code
\* random.randint returns, and whether send_email delivers (Some(code)) or
\* raises (None).
Outcomes == {None} \cup {Some(c) : c \in randint(MinCode, MaxCode)}
Drawn(outcome) == IF outcome = None THEN MinCode ELSE outcome[1]
\* The outcomes to tell apart: one only, when the request ends before it
\* generates a code.
OutcomesIf(generates) == IF generates THEN Outcomes ELSE {None}
\* The images to tell apart: one only, when the request ends before it looks
\* at the image.
ImagesIf(reaches) == IF reaches THEN Images ELSE {"ok"}
CodesIf(generates) == IF generates THEN randint(MinCode, MaxCode) ELSE {MinCode}

register ==
    \E email \in Emails, username \in Usernames, password \in Passwords :
    \E outcome \in OutcomesIf(free_plan /\ by_username(users, username) = 0
                                         /\ by_email(users, email) = 0) :
        /\ Len(users) < MaxUsers
        /\ Handle("register", 0,
                  [email |-> email, username |-> username, mail_ok |-> outcome # None],
                  register_body(users, free_plan, email, username, password,
                                Drawn(outcome), outcome # None))

register_validation ==
    \E email \in Emails, validation_code \in SubmittedCodes :
        Handle("register_validation", validation_code, None,
               register_validation_body(users, email, validation_code))

recover_password ==
    \E email \in Emails : \E outcome \in OutcomesIf(by_email(users, email) # 0) :
        Handle("recover_password", 0, [email |-> email],
               recover_password_body(users, email, Drawn(outcome), outcome # None))

\* POST /session/recover-password-validate with a new password of the given
\* ones, repeated well or badly.
recover_password_validation_sent(passwords) ==
    \E email \in Emails, new_password \in passwords,
       repeated_new_password \in passwords \cup {Pw("typo", "")},
       validation_code \in SubmittedCodes :
        Handle("recover_password_validation", validation_code,
               [email |-> email, new_password |-> new_password,
                repeated_new_password |-> repeated_new_password],
               recover_password_validation_body(users, email, new_password,
                                                repeated_new_password, validation_code))

recover_password_validation == recover_password_validation_sent(Passwords)

\* The protected handlers run for the bearer of a token, whose user_id is the
\* id of a stored identity.
update_user ==
    \E user_id \in Ids(users),
       email \in {None} \cup {Some(e) : e \in Emails},
       username \in {None} \cup {Some(n) : n \in Usernames} :
    \E outcome \in OutcomesIf(/\ email # None /\ email # users[user_id].email
                               /\ \A i \in Ids(users) : i # user_id => users[i].email # email) :
    \E image \in ImagesIf(update_user_body(users, user_id, email, username, "ok",
                                           Drawn(outcome), outcome # None).status = 200) :
        Handle("update_user", 0, [email |-> email],
               update_user_body(users, user_id, email, username, image,
                                Drawn(outcome), outcome # None))

change_email_validation ==
    \E user_id \in Ids(users), validation_code \in SubmittedCodes :
        Handle("change_email_validation", validation_code, None,
               change_email_validation_body(users, user_id, validation_code))

resend_validation_code ==
    \E email \in Emails : \E outcome \in OutcomesIf(by_email(users, email) # 0) :
        Handle("resend_validation_code", 0, None,
               resend_validation_code_body(users, email, Drawn(outcome), outcome # None))

Next ==
    \/ register
    \/ register_validation
    \/ recover_password
    \/ recover_password_validation
    \/ update_user
    \/ change_email_validation
    \/ resend_validation_code

Init == InitTxVars /\ InitApp /\ InitAux

Spec == Init /\ [][Next]_vars

\* ------------------------------------------------- concurrent requests
\* A request starts: its session reads the rows (one snapshot for the
\* transaction) and its body decides; nothing is written until the scope ends.
Begin(op, code, body) ==
    /\ BagCardinality(reqs) < NumReq
    /\ started < MaxStarted
    /\ started' = started + 1
    /\ reqs' = reqs (+) SetToBag({[op |-> op, code |-> code, plan |-> body]})
    /\ UNCHANGED <<free_plan, users, ghost, resp, txvars, auxvars>>

begin_register ==
    \E email \in Emails, username \in Usernames, password \in Passwords :
    \E validation_code \in randint(MinCode, MaxCode) :
        /\ Len(users) < MaxUsers
        /\ Begin("register", 0,
                 register_body(users, free_plan, email, username, password,
                               validation_code, TRUE))

begin_register_validation ==
    \E email \in Emails, validation_code \in SubmittedCodes :
        /\ by_email(users, email) # 0
        /\ Begin("register_validation", validation_code,
                 register_validation_body(users, email, validation_code))

begin_recover_password ==
    \E email \in Emails, validation_code \in randint(MinCode, MaxCode) :
        /\ by_email(users, email) # 0
        /\ Begin("recover_password", 0,
                 recover_password_body(users, email, validation_code, TRUE))

begin_recover_password_validation ==
    \E email \in Emails, new_password \in Passwords, validation_code \in SubmittedCodes :
        /\ by_email(users, email) # 0
        /\ Begin("recover_password_validation", validation_code,
                 recover_password_validation_body(users, email, new_password,
                                                  new_password, validation_code))

begin_update_user ==
    \E user_id \in Ids(users),
       email \in {None} \cup {Some(e) : e \in Emails},
       username \in {None} \cup {Some(n) : n \in Usernames} :
    \E validation_code \in CodesIf(/\ email # None /\ email # users[user_id].email
                                  /\ \A i \in Ids(users) : i # user_id => users[i].email # email) :
        /\ email # None \/ username # None
        /\ Begin("update_user", 0,
                 update_user_body(users, user_id, email, username, "ok",
                                  validation_code, TRUE))

begin_change_email_validation ==
    \E user_id \in Ids(users), validation_code \in SubmittedCodes :
        /\ Begin("change_email_validation", validation_code,
                 change_email_validation_body(users, user_id, validation_code))

\* The scope of a request ends: the flush and the commit on the table as it
\* is now, and the answer.
finish ==
    \E r \in BagToSet(reqs) :
        /\ \E plan \in {r.plan} : \E status \in {Status(users, plan)} :
           LET done == status = 200 IN
           /\ users' = IF done THEN Flushed(users, plan) ELSE users
           /\ ghost' = IF done THEN GhostAfter(ghost, plan, r.op, r.code) ELSE ghost
           /\ resp' = [NoResp EXCEPT
                         !.op = r.op, !.status = status,
                         !.detail = IF status = plan.status THEN plan.detail
                                                            ELSE "SQLAlchemyError",
                         !.uid = IF done /\ plan.ins # <<>> THEN Len(users) + 1 ELSE plan.uid]
        /\ reqs' = reqs (-) SetToBag({r})
        /\ UNCHANGED <<free_plan, started, txvars, auxvars>>

NextConc ==
    \/ begin_register
    \/ begin_register_validation
    \/ begin_recover_password
    \/ begin_recover_password_validation
    \/ begin_update_user
    \/ begin_change_email_validation
    \/ finish

InitConc == InitTxVars /\ InitApp /\ InitAux /\ free_plan = TRUE

SpecConc == InitConc /\ [][NextConc]_vars


\* ------------------------------------------ claims on the validation codes

\* C4: a consuming call (register-validate, change-email-validate,
\* recover-password-validate) that succeeds found the submitted code equal to
\* the stored one and leaves the stored code null; and a call that submits a
\* code already consumed for that identity, with no code generated since, is
\* refused with 422 "Validation code is not valid".
C4_ConsumedCodeIsRefused ==
    [][ (resp'.op \in ValidateOps /\ resp'.uid # 0) =>
          /\ (resp'.status = 200 =>
                /\ users[resp'.uid].validation_code = Some(resp'.code)
                /\ users'[resp'.uid].validation_code = None)
          /\ (resp'.code \in ghost[resp'.uid].spent =>
                /\ resp'.status = 422
                /\ resp'.detail = "Validation code is not valid"
                /\ users' = users) ]_vars

\* C4 witness: a code that had been consumed was submitted again and refused.
C4_ReplayRefused ==
    /\ resp.op \in ValidateOps /\ resp.uid # 0
    /\ resp.status = 422
    /\ resp.code \in ghost[resp.uid].spent
    /\ users[resp.uid].validation_code = None

\* C6: in every consuming call, check_validation_code answers true exactly
\* when the stored code is not null and equals the submitted one.
C6_CheckIffStoredEqual ==
    [][ (resp'.op \in ValidateOps /\ resp'.uid # 0) =>
          (resp'.checked <=>
              /\ users[resp'.uid].validation_code # None
              /\ users[resp'.uid].validation_code[1] = resp'.code) ]_vars

\* C6 witness: a code was checked against a stored null, and refused.
C6_CheckedAgainstNull ==
    /\ resp.op \in ValidateOps /\ resp.uid # 0
    /\ users[resp.uid].validation_code = None
    /\ ~resp.checked /\ resp.status = 422

\* C7: a consuming call whose code differs from the stored one is answered
\* 422 and changes no row (active, email, new_email, password and
\* validation_code of every identity stay); so the call that follows it with
\* the stored code passes the check, and activates the identity when it is
\* register-validate.
C7_MismatchChangesNothing ==
    [][ (resp'.op \in ValidateOps /\ resp'.uid # 0) =>
          /\ (users[resp'.uid].validation_code # Some(resp'.code) =>
                /\ resp'.status = 422
                /\ resp'.detail = "Validation code is not valid"
                /\ users' = users)
          /\ ( /\ resp.op = resp'.op /\ resp.uid = resp'.uid
               /\ resp.status = 422 /\ ~resp.checked
               /\ users[resp'.uid].validation_code = Some(resp'.code)
               => /\ resp'.checked
                  /\ (resp'.op = "register_validation" =>
                        resp'.status = 200 /\ users'[resp'.uid].active)) ]_vars

\* C7 witness: a call with the stored code succeeded right after a call of the
\* same kind, for the same identity, was refused for its code.
C7_RetrySucceeded ==
    /\ resp.op \in ValidateOps /\ resp.status = 200 /\ resp.retry

\* C8 (as stated): every stored identity is pending activation (not active,
\* with a code) or active (with no code), or is active with an email change
\* or a password recovery pending.
C8_PendingOrActive ==
    \A u \in Ids(users) :
        \/ ~users[u].active /\ users[u].validation_code # None
        \/ users[u].active /\ users[u].validation_code = None
        \/ /\ users[u].active
           /\ \/ users[u].new_email # None
              \/ ghost[u].flow = "password"

\* C10: a register request that succeeds adds exactly one row and changes no
\* other; the row is not active and holds a code of 100000..999999; exactly
\* one email was sent, to the registered address, carrying that code.
C10_RegisterCreatesPending ==
    [][ (resp'.op = "register" /\ resp'.status = 200) =>
          /\ Len(users') = Len(users) + 1
          /\ SubSeq(users', 1, Len(users)) = users
          /\ resp'.uid = Len(users')
          /\ LET u == users'[Len(users')] IN
               /\ ~u.active
               /\ u.new_email = None
               /\ u.validation_code # None
               /\ u.validation_code[1] \in MinCode..MaxCode
               /\ resp'.mails = <<[to |-> u.email, code |-> u.validation_code[1]]>>
               /\ by_email(users, u.email[1]) = 0
               /\ by_username(users, u.username) = 0
               /\ free_plan ]_vars

\* C10 witness: a register request succeeded and sent its one email.
C10_Registered ==
    /\ resp.op = "register" /\ resp.status = 200
    /\ Len(resp.mails) = 1
    /\ ~users[resp.uid].active

\* C5 (as stated): whatever the interleaving of the requests, a generated
\* code is consumed by at most one of them.
C5_ConsumedAtMostOnce ==
    \A u \in Ids(users) : ghost[u].uses <= 1

\* C9: whatever the interleaving of register, update and
\* change-email-validate requests in concurrent sessions, no two stored
\* identities have the same username and no two the same email.
C9_UniqueUsernameAndEmail ==
    \A i, j \in Ids(users) : i # j =>
        /\ users[i].username # users[j].username
        /\ users[i].email # users[j].email

\* C9 witness: two stored identities, and the commit of a request that had
\* found the username and the email it asked for unused was refused by the
\* table's constraints.
C9_CommitRefused ==
    /\ Len(users) = 2
    /\ resp.op \in {"register", "update_user", "change_email_validation"}
    /\ resp.status = 500 /\ resp.detail = "SQLAlchemyError"

\* ------------------------------------------------ claims on registration

\* C11: a register request that finds the Free Plan missing, the username or
\* the email in use, or whose verification email cannot be sent, is refused
\* (404, 422, 500) and leaves the users table as it was: no row added, no row
\* changed.
C11_FailedRegisterWritesNothing ==
    [][ ( /\ resp'.op = "register"
          /\ \/ ~free_plan
             \/ by_username(users, resp'.arg.username) # 0
             \/ by_email(users, resp'.arg.email) # 0
             \/ ~resp'.arg.mail_ok )
        => /\ resp'.status \in {404, 422, 500}
           /\ resp'.created = 0
           /\ users' = users ]_vars

\* C11 witness: a register request whose email could not be sent was answered
\* 500 while another identity was stored, and its address is not in the table.
C11_MailFailedNothingStored ==
    /\ resp.op = "register" /\ resp.status = 500 /\ resp.detail = "send_email"
    /\ Len(users) = 1
    /\ by_email(users, resp.arg.email) = 0

\* ------------------------------------------------ claims on the email change

\* C19: an update request that asks for an address other than the stored one,
\* which no other identity uses, and is answered 200, leaves the stored email
\* as it was, stores the requested address as new_email, stores the code it
\* generated, and sent exactly one email, to the stored (old) address, with
\* that code.
C19_EmailChangeHeldPending ==
    [][ ( /\ resp'.op = "update_user" /\ resp'.status = 200
          /\ resp'.arg.email # None
          /\ resp'.arg.email # users[resp'.uid].email
          /\ \A i \in Ids(users) : i # resp'.uid => users[i].email # resp'.arg.email )
        => LET old == users[resp'.uid]
               new == users'[resp'.uid]
           IN /\ new.email = old.email
              /\ new.new_email = resp'.arg.email
              /\ new.validation_code # None
              /\ new.validation_code[1] \in MinCode..MaxCode
              /\ resp'.mails = <<[to |-> old.email, code |-> new.validation_code[1]]>> ]_vars

\* C19 witness: an update that asked for another address was answered 200 and
\* the address is pending.
C19_EmailChangePending ==
    /\ resp.op = "update_user" /\ resp.status = 200
    /\ resp.arg.email # None
    /\ users[resp.uid].new_email = resp.arg.email
    /\ users[resp.uid].email # resp.arg.email
    /\ Len(resp.mails) = 1

\* C20 (as stated): change-email-validate with the stored code, for an
\* identity with an email change pending, replaces the stored email by the
\* pending one and sets new_email and validation_code to null.
C20_MatchingCodeReplacesEmail ==
    [][ ( /\ resp'.op = "change_email_validation" /\ resp'.uid # 0
          /\ users[resp'.uid].new_email # None
          /\ users[resp'.uid].validation_code = Some(resp'.code) )
        => /\ users'[resp'.uid].email = users[resp'.uid].new_email
           /\ users'[resp'.uid].new_email = None
           /\ users'[resp'.uid].validation_code = None ]_vars

\* C20 (amended): the same call replaces the stored email by the pending one
\* and sets new_email and validation_code to null, and is answered 200, unless
\* another identity holds the pending address by then: the commit then breaks
\* the unique constraint, the call is answered 500 and no row changes. The
\* stored email of an identity changes in no other request.
C20_ReplacesEmailUnlessTaken ==
    [][ /\ ( /\ resp'.op = "change_email_validation" /\ resp'.uid # 0
             /\ users[resp'.uid].new_email # None
             /\ users[resp'.uid].validation_code = Some(resp'.code) )
           => LET taken == \E i \in Ids(users) :
                              i # resp'.uid /\ users[i].email = users[resp'.uid].new_email
              IN IF taken
                    THEN resp'.status = 500 /\ users' = users
                    ELSE /\ resp'.status = 200
                         /\ users'[resp'.uid].email = users[resp'.uid].new_email
                         /\ users'[resp'.uid].new_email = None
                         /\ users'[resp'.uid].validation_code = None
        /\ \A u \in Ids(users) :
              users'[u].email # users[u].email
                 => resp'.op = "change_email_validation" /\ resp'.uid = u ]_vars

\* C20 witness: a change-email-validate call was answered 200 and the
\* identity holds a new address, with nothing pending.
C20_EmailReplaced ==
    /\ resp.op = "change_email_validation" /\ resp.status = 200
    /\ users[resp.uid].new_email = None
    /\ users[resp.uid].validation_code = None
    /\ ghost[resp.uid].flow = "none"
    /\ users[resp.uid].email # None

\* ------------------------------------------------- the password hasher
\* The plaintexts tried: short ones, and ones longer than 72 bytes that share
\* their first 72 bytes ("long" stands for 72 bytes).
PlainTexts == {Pw("pw1", ""), Pw("pw2", ""), Pw("long", ""), Pw("long", "x"), Pw("long", "y")}

InitHash ==
    /\ InitTxVars
    /\ InitApp /\ free_plan = TRUE
    /\ hp \in {[phase |-> "drawn", p |-> p, p2 |-> p2] : p \in PlainTexts, p2 \in PlainTexts}
    /\ InitLoop
    /\ InitAuthVars
    /\ InitRest

\* hashed = hash_password(p2)
hash_password_call ==
    /\ hp.phase = "drawn"
    /\ \E hashed \in hash_password(hp.p2) :
          hp' = [phase |-> "hashed", p |-> hp.p, p2 |-> hp.p2, hashed |-> hashed]
    /\ UNCHANGED <<txvars, appvars, tasks, loop, authvars, restvars>>

\* verify_password(p, hashed)
verify_password_call ==
    /\ hp.phase = "hashed"
    /\ hp' = [phase |-> "verified", p |-> hp.p, p2 |-> hp.p2, hashed |-> hp.hashed,
              verified |-> verify_password(hp.p, hp.hashed)]
    /\ UNCHANGED <<txvars, appvars, tasks, loop, authvars, restvars>>

NextHash ==
    \/ hash_password_call
    \/ verify_password_call

SpecHash == InitHash /\ [][NextHash]_vars

\* C18 (as stated): for all plaintexts p and p2, verify_password(p,
\* hash_password(p2)) is true when p2 is p and false when p2 differs from p.
C18_VerifyIffSamePassword ==
    hp.phase = "verified" => (hp.verified <=> hp.p = hp.p2)

\* ------------------------------------- the event loop and the worker pool
\* The calls of the password hasher each handler makes, in order, and how it
\* makes them: "direct" is a plain call (verify_password(...)), which runs in
\* the coroutine, on the event loop thread; "executor" is an awaited
\* hash_password_async / verify_password_async, which hand the function to
\* the ThreadPoolExecutor with loop.run_in_executor.
PasswordCalls(handler) ==
    CASE handler = "register" ->
            <<[fn |-> "hash_password", how |-> "executor"]>>
      [] handler = "login" ->
            <<[fn |-> "verify_password", how |-> "direct"]>>
      [] handler = "login_swagger" ->
            <<[fn |-> "verify_password", how |-> "direct"]>>
      [] handler = "change_password" ->
            <<[fn |-> "verify_password", how |-> "executor"],
              [fn |-> "hash_password", how |-> "executor"]>>
      [] handler = "recover_password_validation" ->
            <<[fn |-> "hash_password", how |-> "executor"]>>

HashingHandlers ==
    {"register", "login", "login_swagger", "change_password", "recover_password_validation"}

\* A request arrives: the event loop starts a task for its handler.
start_request ==
    \E t \in 1..NumTasks, handler \in HashingHandlers :
        /\ tasks[t] = NoTask
        /\ tasks' = [tasks EXCEPT ![t] = [handler |-> handler, next |-> 1, at |-> "ready"]]
        /\ UNCHANGED <<loop, hp, txvars, appvars, authvars, restvars>>

\* The event loop resumes a task that is ready, up to its next call of the
\* password hasher: a direct call computes on the event loop thread, which
\* runs nothing else until it returns; run_in_executor starts the computation
\* on a pool thread and the task awaits it, leaving the loop free.
call_password_function ==
    \E t \in 1..NumTasks :
        /\ tasks[t] # NoTask /\ tasks[t].at = "ready"
        /\ tasks[t].next <= Len(PasswordCalls(tasks[t].handler))
        /\ loop = 0
        /\ LET call == PasswordCalls(tasks[t].handler)[tasks[t].next] IN
           IF call.how = "direct"
              THEN /\ tasks' = [tasks EXCEPT ![t].at = "computing on the loop"]
                   /\ loop' = t
              ELSE /\ tasks' = [tasks EXCEPT ![t].at = "computing on the pool"]
                   /\ loop' = 0
        /\ UNCHANGED <<hp, txvars, appvars, authvars, restvars>>

\* The computation of the hash ends and its caller goes on.
password_function_returns ==
    \E t \in 1..NumTasks :
        /\ tasks[t] # NoTask
        /\ tasks[t].at \in {"computing on the loop", "computing on the pool"}
        /\ tasks' = [tasks EXCEPT ![t].at = "ready", ![t].next = @ + 1]
        /\ loop' = IF loop = t THEN 0 ELSE loop
        /\ UNCHANGED <<hp, txvars, appvars, authvars, restvars>>

\* The handler returns its answer and the task ends.
request_done ==
    \E t \in 1..NumTasks :
        /\ tasks[t] # NoTask /\ tasks[t].at = "ready"
        /\ tasks[t].next > Len(PasswordCalls(tasks[t].handler))
        /\ loop = 0
        /\ tasks' = [tasks EXCEPT ![t] = NoTask]
        /\ UNCHANGED <<loop, hp, txvars, appvars, authvars, restvars>>

NextLoop ==
    \/ start_request
    \/ call_password_function
    \/ password_function_returns
    \/ request_done

SpecLoop == InitConc /\ [][NextLoop]_vars

\* C17 (as stated): every hash and every verification of a password made for
\* a request is computed on the worker pool, never on the event loop thread:
\* the loop stays free to run other requests while a hash is computed.
C17_HashesRunOnThePool ==
    /\ \A t \in 1..NumTasks :
          tasks[t] # NoTask => tasks[t].at # "computing on the loop"
    /\ loop = 0

\* ------------------------------------------------------------ the tokens
\* The clock stops here: long enough for a token to expire and a second more.
MaxNow == (TTL + 1) * TicksPerSecond

\* os.getenv("JWT_SECRET_KEY")
JWT_SECRET_KEY == "JWT_SECRET_KEY"

\* timegm(d.utctimetuple()): the whole seconds of the reading d of the clock;
\* the fraction is dropped.
timegm(d) == d \div TicksPerSecond

\* datetime.now(tz=utc) + timedelta(minutes=JWT_EXP_TIME_IN_MINUTES), a
\* reading of the clock.
exp_datetime(t) == t + TTL * TicksPerSecond

\* jwt.encode(payload, key): a datetime in the exp claim becomes the integer
\* of its whole seconds; the claims are signed with the key.
jwt_encode(payload, key) ==
    [form |-> "jwt", claims |-> [payload EXCEPT !.exp = timegm(@)], key |-> key]

\* A string that is no JWT.
Garbage == [form |-> "garbage", claims |-> [exp |-> 0], key |-> ""]

\* PyJWT's _validate_exp at the reading t of the clock (releases from 2.6 on:
\* now is datetime.now().timestamp(), and the token is refused when
\* exp <= now).
exp_never_checked(exp_claim, t) == FALSE
expired_with_leeway(exp_claim, t) == (exp_claim + 1) * TicksPerSecond <= t

expired(exp_claim, t) == exp_claim * TicksPerSecond <= t

\* jwt.decode(token, key, algorithms): the exception raised, or the claims.
jwt_decode(token, key, t) ==
    IF token.form # "jwt" THEN [raised |-> "DecodeError", payload |-> None]
    ELSE IF token.key # key THEN [raised |-> "InvalidSignatureError", payload |-> None]
    ELSE IF expired(token.claims.exp, t)
        THEN [raised |-> "ExpiredSignatureError", payload |-> None]
    ELSE [raised |-> "", payload |-> Some(token.claims)]

\* The function below refusing the token of an identity that has asked for
\* another email since.
check_token_revoking(authorization, t) ==
    IF authorization = None
        THEN [status |-> 401, detail |-> "Not authenticated", payload |-> None]
    ELSE LET decoded == jwt_decode(authorization[1], JWT_SECRET_KEY, t) IN
         IF decoded.raised # ""
            THEN [status |-> 401, detail |-> "Invalid token", payload |-> None]
         ELSE IF \/ decoded.payload[1].user_id \notin Ids(users)
                 \/ users[decoded.payload[1].user_id].new_email # None
            THEN [status |-> 401, detail |-> "Invalid token", payload |-> None]
            ELSE [status |-> 200, detail |-> "", payload |-> decoded.payload]

\* check_token, with the oauth2_scheme it depends on. authorization: None
\* when the request has no Authorization header, else the bearer token.
check_token(authorization, t) ==
    IF authorization = None
        THEN [status |-> 401, detail |-> "Not authenticated", payload |-> None]
    ELSE LET decoded == jwt_decode(authorization[1], JWT_SECRET_KEY, t) IN
         IF decoded.raised # ""
            THEN [status |-> 401, detail |-> "Invalid token", payload |-> None]
            ELSE [status |-> 200, detail |-> "", payload |-> decoded.payload]

create_access_token(data, t) ==
    jwt_encode([exp |-> exp_datetime(t)] @@ data, JWT_SECRET_KEY)

\* The function below without the assignment of a new exp.
refresh_access_token_keeps_exp(token, t) ==
    LET decoded == jwt_decode(token, JWT_SECRET_KEY, t) IN
    IF decoded.raised # ""
        THEN [status |-> 401, detail |-> "Invalid token", token |-> None]
        ELSE [status |-> 200, detail |-> "",
              token |-> Some([form |-> "jwt", claims |-> decoded.payload[1],
                              key |-> JWT_SECRET_KEY])]

refresh_access_token(token, t) ==
    LET decoded == jwt_decode(token, JWT_SECRET_KEY, t) IN
    IF decoded.raised # ""
        THEN [status |-> 401, detail |-> "Invalid token", token |-> None]
        ELSE [status |-> 200, detail |-> "",
              token |-> Some(jwt_encode([decoded.payload[1] EXCEPT !.exp = exp_datetime(t)],
                                        JWT_SECRET_KEY))]

\* ------------------------------------------------------------- the logins
\* What a client may type as the user of a login: the names and addresses of
\* the model, those that nobody registered among them.
LoginNames == Usernames \cup Emails
LoginPasswords == Passwords \cup {Pw("bad", "")}

\* re.match(r"[^@]+@[^@]+\.[^@]+", user), on the strings of LoginNames.
re_match_email(user) == user \in Emails

Answer(status, detail, token) == [status |-> status, detail |-> detail, token |-> token]

\* The body below with an answer of its own for a user that is not found.
login_tells_unknown_user(tbl, user, password, t) ==
    LET uid == IF re_match_email(user) THEN by_email(tbl, user) ELSE by_username(tbl, user) IN
    IF uid = 0 THEN Answer(404, "User not found", None)
    ELSE IF ~verify_password(password, tbl[uid].password)
        THEN Answer(401, "Invalid User or Password", None)
    ELSE IF ~tbl[uid].active THEN Answer(401, "User is not active", None)
    ELSE Answer(200, "",
                Some(create_access_token([user_id |-> uid, username |-> tbl[uid].username,
                                          email |-> tbl[uid].email], t)))

\* POST /session/login
login_body(tbl, user, password, t) ==
    LET uid == IF re_match_email(user) THEN by_email(tbl, user) ELSE by_username(tbl, user) IN
    IF uid = 0 \/ ~verify_password(password, tbl[uid].password)
        THEN Answer(401, "Invalid User or Password", None)
    ELSE IF ~tbl[uid].active THEN Answer(401, "User is not active", None)
    ELSE Answer(200, "",
                Some(create_access_token([user_id |-> uid, username |-> tbl[uid].username,
                                          email |-> tbl[uid].email], t)))

\* POST /session/login-swagger: the user is looked up by email only, and
\* nothing asks whether it is active.
login_swagger_body(tbl, username, password, t) ==
    LET uid == by_email(tbl, username) IN
    IF uid = 0 \/ ~verify_password(password, tbl[uid].password)
        THEN Answer(404, "Invalid User or Password", None)
    ELSE Answer(200, "",
                Some(create_access_token([user_id |-> uid, email |-> tbl[uid].email], t)))

\* -------------------------------------------------------- the middlewares
\* A path is the sequence of its pieces, cut where one path of the
\* application is a prefix of another.
LOGIN == <<"/session/login">>
LOGIN_SWAGGER == <<"/session/login", "-swagger">>
REGISTER_VALIDATE == <<"/session/register", "-validate">>
UPDATE == <<"/user/update">>
RESEND_VALIDATION_CODE == <<"/user/resend-validation-code">>

EXCLUDED_PATHS ==
    {<<"/session/login">>, <<"/session/register">>, <<"/session/login", "-swagger">>,
     <<"/docs">>, <<"/openapi.json">>, <<"/static">>}

\* The function below taking only the whole string for a prefix of it.
startswith_whole(str, prefix) == str = prefix

\* str.startswith
startswith(str, prefix) ==
    Len(prefix) <= Len(str) /\ SubSeq(str, 1, Len(prefix)) = prefix

\* A response: its status, its JSON body (one key, "detail" or "message", and
\* the text under it; a login adds the token) and its Authorization header.
Response(status, key, text, token, authorization) ==
    [status |-> status, key |-> key, text |-> text, token |-> token,
     authorization |-> authorization]

\* What leaves a dispatch: a response returned or an HTTPException raised.
Returned(response) == [raised |-> FALSE, response |-> response]
Raised(status, detail) == [raised |-> TRUE, status |-> status, detail |-> detail]

\* AddJWTToResponseMiddleware.dispatch, after call_next returned the response:
\* t is the reading of the clock then.
AddJWTToResponseMiddleware_dispatch(path, authorization, response, t) ==
    IF (~\E excluded \in EXCLUDED_PATHS : startswith(path, excluded)) /\ authorization # None
        THEN LET refreshed_jwt == refresh_access_token(authorization[1], t) IN
             IF refreshed_jwt.status # 200
                THEN Raised(refreshed_jwt.status, refreshed_jwt.detail)
                ELSE Returned([response EXCEPT !.authorization = refreshed_jwt.token])
        ELSE Returned(response)

\* ErrorHandlerMiddleware.dispatch around it.
ErrorHandlerMiddleware_dispatch(inner) ==
    IF inner.raised
        THEN Response(inner.status, "message", inner.detail, None, None)
        ELSE inner.response

\* What the client receives for the response of the handler.
Received(path, authorization, response, t) ==
    ErrorHandlerMiddleware_dispatch(
        AddJWTToResponseMiddleware_dispatch(path, authorization, response, t))

\* ------------------------------------------- requests that carry a token
\* The store a run of SpecAuth starts with: one registration, answered or
\* not yet.
RegisterAlice ==
    register_body(<<>>, TRUE, "a@x.com", "alice", Pw("pw1", ""), MaxCode, TRUE)
Registered ==
    [users |-> Flushed(<<>>, RegisterAlice),
     ghost |-> GhostAfter(<<>>, RegisterAlice, "register", 0)]
ActivateAlice == register_validation_body(Registered.users, "a@x.com", MaxCode)
Activated ==
    [users |-> Flushed(Registered.users, ActivateAlice),
     ghost |-> GhostAfter(Registered.ghost, ActivateAlice, "register_validation", MaxCode)]

InitAuth ==
    /\ InitTxVars
    /\ free_plan = TRUE
    /\ \E store \in {Registered, Activated} : users = store.users /\ ghost = store.ghost
    /\ resp = NoResp
    /\ reqs = EmptyBag
    /\ started = 0
    /\ InitAux

\* A token somebody else signed.
Forged ==
    jwt_encode([user_id |-> 1, username |-> "alice", email |-> Some("a@x.com"),
                exp |-> exp_datetime(MaxNow)], "another key")

\* The Authorization headers a client may send: none, the token it holds,
\* a string that is no token, a token signed with another key.
Presented == {None, Some(Garbage), Some(Forged)}
                \cup (IF jar = None THEN {} ELSE {Some(jar[1].token)})

\* When the token in the header was issued (-1: it is not the client's).
IssuedAt(authorization) ==
    IF jar # None /\ authorization = Some(jar[1].token) THEN jar[1].issued ELSE -1

NoGate == [status |-> 0, detail |-> "", payload |-> None]

\* An exchange: the request (its path, its Authorization header, the form
\* fields arg the claims read), the reading `at` of the clock when its
\* dependencies were resolved, what check_token returned (gate), whether the
\* handler ran and whether the store changed, the response of the handler, the
\* reading `hook` of the clock when the refresh ran, the response received.
Exchange(path, authorization, arg, at, gate, ran, changed, response, received, hook) ==
    [path |-> path, authorization |-> authorization, issued |-> IssuedAt(authorization),
     arg |-> arg, at |-> at, gate |-> gate, ran |-> ran, changed |-> changed,
     response |-> response, received |-> received, hook |-> hook]

\* The client keeps the token a response brings.
Kept(token, t) == IF token = None THEN jar ELSE Some([token |-> token[1], issued |-> t])

\* What a client holds after a response: one that adopts every token it is
\* sent, or one that may go on with the token it has.
Held(token, t, adopts) == IF adopts THEN {Kept(token, t)} ELSE {jar, Kept(token, t)}

\* The headers a client of the second kind sends.
Own == Presented \ {Some(Garbage), Some(Forged)}

\* The handler of a request of SpecAuth, from its first read to the end of
\* its scope: what it leaves in the store, and its answer.
Served(plan) ==
    /\ users' = IF Status(users, plan) = 200 THEN Flushed(users, plan) ELSE users
    /\ UNCHANGED <<free_plan, ghost, resp, reqs, started, txvars>>

Served_response(plan) ==
    Response(Status(users, plan), "detail",
             IF Status(users, plan) = plan.status THEN plan.detail ELSE "SQLAlchemyError",
             None, None)

\* Time passes; out is the exchange of the present reading of the clock.
tick ==
    /\ now < MaxNow
    /\ now' = now + 1
    /\ out' = NoExchange
    /\ UNCHANGED <<jar, hp, tasks, loop, txvars, appvars, restvars>>

\* POST /session/login: no dependency on check_token, and the path is excluded
\* from the refresh.
login ==
    \E user \in LoginNames, password \in LoginPasswords :
        LET answer == login_body(users, user, password, now)
            response == Response(answer.status, "detail", answer.detail, answer.token, None)
            received == Received(LOGIN, None, response, now)
        IN
        /\ out' = Exchange(LOGIN, None, [user |-> user, password |-> password], now, NoGate, TRUE, FALSE, response, received, now)
        /\ jar' = Kept(received.token, now)
        /\ UNCHANGED <<now, hp, tasks, loop, txvars, appvars, restvars>>

\* POST /session/login-swagger, sent with one of the given Authorization
\* headers.
login_swagger_sent(headers) ==
    \E username \in LoginNames, password \in LoginPasswords, authorization \in headers :
        LET answer == login_swagger_body(users, username, password, now)
            response == Response(answer.status, "detail", answer.detail, answer.token, None)
            received == Received(LOGIN_SWAGGER, authorization, response, now)
        IN
        /\ out' = Exchange(LOGIN_SWAGGER, authorization,
                           [user |-> username, password |-> password],
                           now, NoGate, TRUE, FALSE, response, received, now)
        /\ jar' = Kept(received.token, now)
        /\ UNCHANGED <<now, hp, tasks, loop, txvars, appvars, restvars>>

\* POST /session/login-swagger as the documentation page sends it, with no
\* Authorization header.
login_swagger == login_swagger_sent({None})

\* POST /user/update, which depends on check_token: the dependency is
\* resolved at the reading `now` of the clock, the handler runs when it
\* returned, and the refresh runs when the handler has answered, `elapsed`
\* ticks later. A request check_token refuses ends before its form is read
\* and takes no time.
post_update_sent(headers, adopts) ==
    \E authorization \in headers :
    \E email \in IF check_token(authorization, now).status = 200
                    THEN {None, Some("b@x.com")} ELSE {None},
       elapsed \in IF check_token(authorization, now).status = 200 THEN 0..1 ELSE {0} :
    \E validation_code \in CodesIf(email # None) :
        LET token_data == check_token(authorization, now)
            user_id == IF token_data.status = 200 THEN token_data.payload[1].user_id ELSE 0
            plan == update_user_body(users, user_id, email, None, "ok", validation_code, TRUE)
            response ==
                IF token_data.status = 200
                   THEN Served_response(plan)
                   ELSE Response(token_data.status, "detail", token_data.detail, None, None)
            received == Received(UPDATE, authorization, response, now + elapsed)
        IN
        /\ now + elapsed <= MaxNow
        /\ now' = now + elapsed
        /\ IF token_data.status = 200
              THEN Served(plan)
              ELSE UNCHANGED <<txvars, appvars>>
        /\ out' = Exchange(UPDATE, authorization, None, now, token_data, token_data.status = 200,
                           users' # users, response, received, now + elapsed)
        /\ jar' \in Held(received.authorization, now + elapsed, adopts)
        /\ UNCHANGED <<hp, tasks, loop, restvars>>

post_update == post_update_sent(Presented, TRUE)

\* POST /user/resend-validation-code, which does not depend on check_token,
\* sent with an Authorization header or without.
post_resend_validation_code_sent(headers, adopts) ==
    \E authorization \in headers, email \in Emails :
    \E validation_code \in CodesIf(by_email(users, email) # 0) :
        LET plan == resend_validation_code_body(users, email, validation_code, TRUE)
            response == Served_response(plan)
            received == Received(RESEND_VALIDATION_CODE, authorization, response, now)
        IN
        /\ Served(plan)
        /\ out' = Exchange(RESEND_VALIDATION_CODE, authorization, None, now, NoGate, TRUE,
                           users' # users, response, received, now)
        /\ jar' \in Held(received.authorization, now, adopts)
        /\ UNCHANGED <<now, hp, tasks, loop, restvars>>

post_resend_validation_code == post_resend_validation_code_sent(Presented, TRUE)

\* POST /session/register-validate, which does not depend on check_token,
\* sent with an Authorization header or without.
post_register_validate ==
    \E authorization \in Own, email \in Emails :
    \E validation_code \in IF by_email(users, email) # 0 THEN SubmittedCodes ELSE {MinCode} :
        LET plan == register_validation_body(users, email, validation_code)
            response == Served_response(plan)
            received == Received(REGISTER_VALIDATE, authorization, response, now)
        IN
        /\ Served(plan)
        /\ out' = Exchange(REGISTER_VALIDATE, authorization, None, now, NoGate, TRUE,
                           users' # users, response, received, now)
        /\ jar' \in Held(received.authorization, now, FALSE)
        /\ UNCHANGED <<now, hp, tasks, loop, restvars>>

NextAuth ==
    \/ tick
    \/ login
    \/ login_swagger
    \/ post_update
    \/ post_resend_validation_code

SpecAuth == InitAuth /\ [][NextAuth]_vars

\* ------------------------------------------------- password recovery
\* The recovery of a password by an identity registered with another one.
NewPasswords == Passwords \cup {Pw("pw2", "")}

recover_password_validation_new == recover_password_validation_sent(NewPasswords)

NextRecover ==
    \/ recover_password
    \/ recover_password_validation_new

SpecRecover == InitAuth /\ [][NextRecover]_vars

\* The same service used by a client that sends the token it holds on every
\* request, the excluded paths included, and may go on with that token when
\* the response brings another.
login_swagger_with_bearer == login_swagger_sent(Own)

post_update_held == post_update_sent(Own, FALSE)

post_resend_validation_code_held == post_resend_validation_code_sent(Own, FALSE)

NextHook ==
    \/ tick
    \/ login_swagger_with_bearer
    \/ post_update_held
    \/ post_resend_validation_code_held
    \/ post_register_validate

SpecHook == InitAuth /\ [][NextHook]_vars

\* ----------------------------------------------------------------- C12
\* The identity a login looks up (0: none).
LoginLookup(path, user) ==
    IF path = LOGIN /\ ~re_match_email(user) THEN by_username(users, user)
    ELSE by_email(users, user)

LoginAnswer(path, user, password) ==
    IF path = LOGIN THEN login_body(users, user, password, now)
    ELSE login_swagger_body(users, user, password, now)

\* C12: for login and for login-swagger, a wrong password for an identity
\* that exists and any password for an identity that does not exist are
\* answered alike, with the same status and the same message (and no token).
C12_WrongPasswordSameFailure ==
    \A path \in {LOGIN, LOGIN_SWAGGER} :
    \A user \in LoginNames, other \in LoginNames, password \in LoginPasswords :
        (/\ LoginLookup(path, user) # 0
         /\ ~verify_password(password, users[LoginLookup(path, user)].password)
         /\ LoginLookup(path, other) = 0)
        => /\ LoginAnswer(path, user, password).status # 200
           /\ LoginAnswer(path, user, password) = LoginAnswer(path, other, password)

\* A login with a wrong password for a stored identity was refused.
C12_WrongPasswordRefused ==
    /\ out.path = LOGIN
    /\ LoginLookup(LOGIN, out.arg.user) # 0
    /\ ~verify_password(out.arg.password, users[LoginLookup(LOGIN, out.arg.user)].password)
    /\ out.received.status = 401
    /\ out.received.text = "Invalid User or Password"

\* ----------------------------------------------------------------- C13
\* The header carries a token signed with the application's key whose expiry
\* lies after the reading t of the clock.
ValidBearer(authorization, t) ==
    /\ authorization # None
    /\ authorization[1].form = "jwt"
    /\ authorization[1].key = JWT_SECRET_KEY
    /\ t < authorization[1].claims.exp * TicksPerSecond

\* C13: the handler of a protected endpoint runs, and the store changes, only
\* for a request whose bearer token has a valid signature and has not expired
\* when check_token looks at it; a request with no token, with a string that
\* is no token, with a forged token or with an expired one is answered 401,
\* its handler does not run and the store stays as it was.
C13_ProtectedNeedsValidToken ==
    out.path = UPDATE =>
        /\ out.ran => ValidBearer(out.authorization, out.at)
        /\ out.changed => out.ran
        /\ ~ValidBearer(out.authorization, out.at) =>
              /\ ~out.ran /\ ~out.changed
              /\ out.response.status = 401
              /\ out.received.status = 401

\* The client's own token, expired, was refused by a protected endpoint.
C13_ExpiredTokenRefused ==
    /\ out.path = UPDATE
    /\ out.issued >= 0
    /\ out.at >= out.authorization[1].claims.exp * TicksPerSecond
    /\ out.received.status = 401
    /\ ~out.ran /\ ~out.changed

\* ----------------------------------------------------------------- C14
\* The claims a login of the stored identity uid signs, exp left out.
IsDataOf(claims, uid) ==
    /\ uid \in Ids(users)
    /\ claims.user_id = uid
    /\ claims.email = users[uid].email
    /\ "username" \in DOMAIN claims => claims.username = users[uid].username
    /\ DOMAIN claims \in {{"user_id", "username", "email", "exp"}, {"user_id", "email", "exp"}}

\* C14 (as stated): check_token on a token the application issued returns its
\* claims, exp included, at every reading of the clock less than the TTL after
\* the issue, and fails with 401 "Invalid token" at every reading at or after
\* the expiry.
C14_ValidUntilTTLElapsed ==
    (out.path = UPDATE /\ out.issued >= 0) =>
        /\ out.at - out.issued < TTL * TicksPerSecond =>
              /\ out.gate.status = 200
              /\ out.gate.payload = Some(out.authorization[1].claims)
              /\ IsDataOf(out.gate.payload[1], 1)
        /\ out.at >= out.authorization[1].claims.exp * TicksPerSecond =>
              /\ out.gate.status = 401
              /\ out.gate.detail = "Invalid token"

\* C14 (amended): the exp claim is the issue time plus the TTL cut down to
\* whole seconds; check_token returns the claims, exp included, at every
\* reading of the clock before that second, and fails with 401 "Invalid
\* token" at every reading at or after it: a token lives for more than the
\* TTL less one second and for no more than the TTL.
C14_ValidUntilExpSecond ==
    (out.path = UPDATE /\ out.issued >= 0) =>
        LET exp_claim == out.authorization[1].claims.exp IN
        /\ exp_claim = timegm(out.issued + TTL * TicksPerSecond)
        /\ exp_claim * TicksPerSecond > out.issued + (TTL - 1) * TicksPerSecond
        /\ exp_claim * TicksPerSecond <= out.issued + TTL * TicksPerSecond
        /\ out.at < exp_claim * TicksPerSecond =>
              /\ out.gate.status = 200
              /\ out.gate.payload = Some(out.authorization[1].claims)
              /\ IsDataOf(out.gate.payload[1], 1)
        /\ out.at >= exp_claim * TicksPerSecond =>
              /\ out.gate.status = 401
              /\ out.gate.detail = "Invalid token"

\* A token was refused less than the TTL after its issue.
C14_RefusedBeforeTTL ==
    /\ out.path = UPDATE /\ out.issued >= 0
    /\ out.at - out.issued < TTL * TicksPerSecond
    /\ out.gate.status = 401

\* ----------------------------------------------------------------- C15
\* The claims of a token without its expiry.
Identity(claims) == [c \in DOMAIN claims \ {"exp"} |-> claims[c]]

\* The refresh hook refreshed the client's own token.
Refreshed ==
    /\ out.path \in {UPDATE, RESEND_VALIDATION_CODE}
    /\ out.issued >= 0
    /\ out.received.authorization # None

\* C15 (as stated): the token refresh_access_token returns for a valid
\* unexpired token has the same identity claims and an expiry strictly later
\* than the expiry of the token it was given, whenever the refresh happens.
C15_RefreshStrictlyLater ==
    Refreshed =>
        /\ Identity(out.received.authorization[1].claims) = Identity(out.authorization[1].claims)
        /\ out.received.authorization[1].claims.exp > out.authorization[1].claims.exp

\* C15 (amended): the token returned has the same identity claims and an
\* expiry that is not earlier; the expiry is strictly later exactly when the
\* refresh happens in a later whole second of the clock than the issue of the
\* token, and equal when both happen in the same second.
C15_RefreshNotEarlier ==
    Refreshed =>
        /\ Identity(out.received.authorization[1].claims) = Identity(out.authorization[1].claims)
        /\ out.received.authorization[1].claims.exp >= out.authorization[1].claims.exp
        /\ out.received.authorization[1].claims.exp > out.authorization[1].claims.exp
              <=> timegm(out.hook) > timegm(out.issued)
        /\ out.received.authorization[1].key = JWT_SECRET_KEY

\* A token was refreshed in the second of its issue and kept its expiry.
C15_SameSecondSameExpiry ==
    /\ Refreshed
    /\ timegm(out.hook) = timegm(out.issued)
    /\ out.received.authorization[1].claims.exp = out.authorization[1].claims.exp

\* ----------------------------------------------------------------- C16
\* C16 (as stated): on a path that is not excluded, when the request has no
\* bearer token, or has one that refresh_access_token refuses when the
\* handler has answered (no token, forged, expired, expired while the
\* handler ran), the client receives the response of the handler, status and
\* body, as the handler made it.
C16_RefreshFailsOpen ==
    (/\ out.path \in {UPDATE, RESEND_VALIDATION_CODE}
     /\ ~ValidBearer(out.authorization, out.hook))
    => out.received = out.response

\* ----------------------------------------------------------------- C30
\* C30 (as stated): recover-password for an address no stored identity holds
\* is answered 404 "User not found", sends no email and changes no row.
C30_UnknownEmailNotFound ==
    [][ (resp'.op = "recover_password" /\ by_email(users, resp'.arg.email) = 0)
        => /\ resp'.status = 404
           /\ resp'.detail = "User not found"
           /\ resp'.mails = <<>>
           /\ users' = users ]_vars

\* ------------------------------------------------------------ the stories
\* The store a run of SpecStory starts with: two registrations.
RegisterBob ==
    register_body(Registered.users, TRUE, "b@x.com", "bob", Pw("pw1", ""), MaxCode, TRUE)
TwoRegistered ==
    [users |-> Flushed(Registered.users, RegisterBob),
     ghost |-> GhostAfter(Registered.ghost, RegisterBob, "register", 0)]

InitStory ==
    /\ InitTxVars
    /\ free_plan = TRUE
    /\ users = TwoRegistered.users
    /\ ghost = TwoRegistered.ghost
    /\ resp = NoResp
    /\ reqs = EmptyBag
    /\ started = 0
    /\ InitAux

StoryAnswer(op, id, user_id, status, detail) ==
    [op |-> op, id |-> id, user_id |-> user_id, status |-> status, detail |-> detail]

\* The id an autoincrement column gives the next row.
NextStoryId == 1 + Cardinality(stories)

\* POST /profile/: the row takes the user_id of the body; the foreign key on
\* users.id refuses one that no user has.
post_profile ==
    \E user_id \in 1..(Len(users) + 1) :
        /\ Len(profiles) < MaxProfiles
        /\ IF user_id \in Ids(users)
              THEN /\ profiles' = Append(profiles, user_id)
                   /\ sout' = StoryAnswer("post_profile", Len(profiles) + 1, user_id, 201, "")
              ELSE /\ profiles' = profiles
                   /\ sout' = StoryAnswer("post_profile", 0, user_id, 500,
                                          "Failed to create profile")
        /\ UNCHANGED <<stories, txvars, appvars, hp, tasks, loop, authvars, errvars>>

\* POST /story/: the row takes the profile_id of the body; the foreign key on
\* profiles.id refuses one that no profile has.
post_story ==
    \E profile_id \in 1..(Len(profiles) + 1), user_id \in Ids(users) :
        /\ Cardinality(stories) < MaxStories
        /\ IF profile_id \in 1..Len(profiles)
              THEN /\ stories' = stories \cup {[id |-> NextStoryId, profile_id |-> profile_id]}
                   /\ sout' = StoryAnswer("post_story", NextStoryId, user_id, 200, "")
              ELSE /\ stories' = stories
                   /\ sout' = StoryAnswer("post_story", 0, user_id, 500, "Failed to create story")
        /\ UNCHANGED <<profiles, txvars, appvars, hp, tasks, loop, authvars, errvars>>

\* select(Story).join(Profile).filter(Story.id == id, Profile.user_id == user_id)
\* : the rows found.
OwnedStory(id, user_id) ==
    {story \in stories : /\ story.id = id
                         /\ story.profile_id \in 1..Len(profiles)
                         /\ profiles[story.profile_id] = user_id}

\* AsyncSession.delete(instance) is a coroutine function: what awaiting it
\* does to the table at the next flush.
AsyncSession_delete(tbl, story) == tbl \ {story}

\* A coroutine function called and not awaited, as in `session.delete(story)`:
\* the call makes a coroutine object and its body never runs.
NotAwaited(tbl, after) == tbl

\* DELETE /story/{id}, for the bearer of a token whose user_id is that of a
\* stored identity.
delete ==
    \E id \in 1..MaxStories, user_id \in Ids(users) :
        LET found == OwnedStory(id, user_id) IN
        /\ IF found = {}
              THEN /\ stories' = stories
                   /\ sout' = StoryAnswer("delete", id, user_id, 404,
                                          "Story not found or not owned by the user")
              ELSE \E story \in found :
                   /\ stories' = NotAwaited(stories, AsyncSession_delete(stories, story))
                   /\ sout' = StoryAnswer("delete", id, user_id, 200,
                                          "Story deleted successfully")
        /\ UNCHANGED <<profiles, txvars, appvars, hp, tasks, loop, authvars, errvars>>

NextStory ==
    \/ post_profile
    \/ post_story
    \/ delete

SpecStory == InitStory /\ [][NextStory]_vars

\* C26 (as stated): a DELETE of a story that exists and belongs to a profile
\* of the token's user is answered 200 "Story deleted successfully" and the
\* story is in the table no more when the request has ended; a DELETE of a
\* story of another user's profile is answered 404 and removes nothing.
C26_OwnedStoryDeleted ==
    [][ sout'.op = "delete" =>
          IF OwnedStory(sout'.id, sout'.user_id) # {}
             THEN /\ sout'.status = 200
                  /\ sout'.detail = "Story deleted successfully"
                  /\ ~\E story \in stories' : story.id = sout'.id
             ELSE /\ sout'.status = 404
                  /\ stories' = stories ]_vars

\* ------------------------------------------- failures outside the classes
\* The handlers of session_controller.py and user_controller.py.
Handlers ==
    {"login", "register", "register_validation", "login_swagger", "recover_password",
     "recover_password_validation", "get_month_stories_count", "change_user_plan",
     "update_user", "change_email_validation", "change_password", "resend_validation_code"}

\* Those that call send_email.
MailingHandlers == {"register", "recover_password", "update_user", "resend_validation_code"}

\* The detail of the HTTPException a handler raises in its
\* `except SQLAlchemyError`; None for a handler that has no such clause.
SQLAlchemyErrorDetail(handler) ==
    CASE handler = "register" -> Some("Failed to register user")
      [] handler = "register_validation" -> Some("Failed to validate email")
      [] handler = "login_swagger" -> Some("Failed to login due to internal server error")
      [] handler = "recover_password" ->
            Some("Failed to initiate password recovery due to internal server error")
      [] handler = "recover_password_validation" -> Some("Failed to validate email")
      [] handler = "change_user_plan" -> Some("Failed to change plan")
      [] handler = "update_user" -> Some("Failed to update settings")
      [] handler = "change_email_validation" -> Some("Failed to validate email")
      [] handler = "change_password" -> Some("Failed to change password")
      [] handler = "resend_validation_code" -> Some("Failed to change password")
      [] OTHER -> None

\* The args of an exception: none, or the text it was raised with.
ExceptionArgs == {<<>>, <<"text 1">>, <<"text 2">>, <<"text 3">>}

\* The exceptions raised below a handler that are none of the application's
\* own HTTPExceptions: by the persistence layer, by the mail sender.
Failures ==
    [handler : Handlers, exception : {"SQLAlchemyError"}, args : ExceptionArgs]
        \cup [handler : MailingHandlers, exception : {"SMTPException"}, args : ExceptionArgs]

\* str(e) of an exception: the text of its only argument, empty without one.
str(args) == IF args = <<>> THEN "" ELSE args[1]

\* ErrorHandlerMiddleware.dispatch on an exception that is no HTTPException.
Unhandled(args) ==
    Raised(500, <<IF args = <<>> THEN "Internal server error" ELSE args[1]>>)

\* What leaves the handler when the exception is raised in its body: the
\* HTTPException of an except clause of its own, or the exception itself.
\* A detail is the sequence of the strings it is made of.
handler_raises(failure) ==
    IF failure.exception = "SQLAlchemyError" /\ SQLAlchemyErrorDetail(failure.handler) # None
        THEN Returned(Response(500, "detail", SQLAlchemyErrorDetail(failure.handler), None, None))
    ELSE IF failure.handler = "recover_password"
        THEN Returned(Response(500, "detail",
                               <<"Failed to initiate password recovery: ", str(failure.args)>>,
                               None, None))
    ELSE Unhandled(failure.args)

InitErr ==
    /\ InitTxVars
    /\ InitApp
    /\ free_plan = TRUE
    /\ hp = NoHash
    /\ InitLoop
    /\ InitAuthVars
    /\ InitStoryVars
    /\ err \in {[phase |-> "raised", failure |-> failure] : failure \in Failures}

\* The request ends: the client receives the response.
answer_failure ==
    /\ err.phase = "raised"
    /\ err' = [phase |-> "answered", failure |-> err.failure,
               response |-> ErrorHandlerMiddleware_dispatch(handler_raises(err.failure))]
    /\ UNCHANGED <<txvars, appvars, hp, tasks, loop, authvars, storyvars>>

NextErr == answer_failure

SpecErr == InitErr /\ [][NextErr]_vars

\* C24 (as stated): the response to a failure that is none of the classified
\* errors has status 500 and a message that does not depend on the text of
\* the exception: the same failure with any other text is answered alike.
C24_SameAnswerWhateverTheText ==
    err.phase = "answered" =>
        /\ err.response.status = 500
        /\ \A args \in ExceptionArgs :
              ErrorHandlerMiddleware_dispatch(
                  handler_raises([err.failure EXCEPT !.args = args])) = err.response

\* ----------------------------------------------------------------- C27
\* C27 (as stated): login and login-swagger issue a token only for an
\* identity whose active flag is true, and the handler of a protected
\* endpoint runs only for such an identity.
C27_TokensOnlyForActive ==
    /\ (out.path \in {LOGIN, LOGIN_SWAGGER} /\ out.received.token # None)
          => users[out.received.token[1].claims.user_id].active
    /\ (out.path = UPDATE /\ out.ran /\ out.gate.payload[1].user_id \in Ids(users))
          => users[out.gate.payload[1].user_id].active

\* ----------------------------------------------------------------- C25
\* The token the hook puts in the Authorization header when it runs at the
\* reading out.hook of the clock: the claims of the request's token with a
\* new expiry.
HeaderRefreshed ==
    /\ out.received.authorization # None
    /\ out.received.authorization[1].key = JWT_SECRET_KEY
    /\ Identity(out.received.authorization[1].claims) = Identity(out.authorization[1].claims)
    /\ out.received.authorization[1].claims.exp = timegm(exp_datetime(out.hook))

C23_IssuedTokenLivesItsTerm ==
    jar # None =>
        LET token == jar[1].token
            answer == check_token(Some(token), now)
        IN
        /\ token.claims.exp = timegm(exp_datetime(jar[1].issued))
        /\ IF now < token.claims.exp * TicksPerSecond
              THEN answer.status = 200 /\ answer.payload = Some(token.claims)
              ELSE answer.status = 401 /\ answer.detail = "Invalid token"

\* The client goes on with a token after an update made with it changed the
\* stored identity, which now waits for another email, and brought a
\* refreshed token with a later expiry; the token is still accepted.
C23_OldTokenStillAccepted ==
    /\ jar # None
    /\ out.path = UPDATE
    /\ out.changed
    /\ out.authorization = Some(jar[1].token)
    /\ out.received.authorization # None
    /\ out.received.authorization[1].claims.exp > jar[1].token.claims.exp
    /\ users[jar[1].token.claims.user_id].new_email # None
    /\ check_token(Some(jar[1].token), now).status = 200

\* ----------------------------------------------------------------- C22
\* C22: the active flag of a stored identity goes from false to true only in
\* a register-validate request that submits the code stored for the identity,
\* and that request leaves the stored code null; no request takes an identity
\* away or sets its active flag back to false.
C22_ActivatedOnlyByRegisterValidate ==
    [][ /\ Len(users') >= Len(users)
        /\ \A u \in Ids(users) :
              /\ users[u].active => users'[u].active
              /\ (~users[u].active /\ users'[u].active) =>
                    /\ resp'.op = "register_validation"
                    /\ resp'.status = 200
                    /\ resp'.uid = u
                    /\ users[u].validation_code = Some(resp'.code)
                    /\ users'[u].validation_code = None ]_vars

\* A register-validate request with the stored code was answered 200: the
\* identity it names is active and holds no code, while another identity that
\* no such request named is still inactive.
C22_OneActivatedOneNot ==
    /\ resp.op = "register_validation"
    /\ resp.status = 200
    /\ users[resp.uid].active
    /\ users[resp.uid].validation_code = None
    /\ \E u \in Ids(users) : ~users[u].active

\* ----------------------------------------------------------------- C21
\* C21: a recover-password-validate request replaces the stored hash by a hash
\* of new_password and clears the stored code exactly when the submitted code
\* is the stored one and new_password equals repeated_new_password; in every
\* other case it fails and changes nothing, and when the code is the stored
\* one but the two passwords differ it fails with 422 and leaves the hash and
\* the code as they were.
C21_ReplacedIffCodeAndRepeatMatch ==
    [][ resp'.op = "recover_password_validation" =>
          LET uid == by_email(users, resp'.arg.email)
              matches == uid # 0 /\ users[uid].validation_code = Some(resp'.code)
          IN
          IF matches /\ resp'.arg.new_password = resp'.arg.repeated_new_password
             THEN /\ resp'.status = 200
                  /\ users'[uid].password \in hash_password(resp'.arg.new_password)
                  /\ verify_password(resp'.arg.new_password, users'[uid].password)
                  /\ users'[uid].validation_code = None
                  /\ users' = [users EXCEPT ![uid].password = users'[uid].password,
                                            ![uid].validation_code = None]
             ELSE /\ resp'.status \in {404, 422}
                  /\ users' = users
                  /\ matches =>
                        /\ resp'.status = 422
                        /\ resp'.detail =
                             "The new password and repeated new password must be the same" ]_vars

\* A recovery replaced the password: the stored hash no longer verifies the
\* password of the registration and verifies the new one.
C21_PasswordReplaced ==
    /\ resp.op = "recover_password_validation"
    /\ resp.status = 200
    /\ ~verify_password(Pw("pw1", ""), users[resp.uid].password)
    /\ verify_password(resp.arg.new_password, users[resp.uid].password)
    /\ users[resp.uid].validation_code = None

\* ----------------------------------------------------------------- C28
\* C28: every email with a validation code that register, update,
\* recover-password or resend-validation-code sent carries the code that is
\* stored for the identity once the request has finished; a request that
\* ended in an error, or whose transaction was rolled back, sent no such
\* email.
C28_MailedCodeIsStored ==
    resp.mails # <<>> =>
        /\ resp.status = 200
        /\ resp.uid \in Ids(users)
        /\ \A i \in 1..Len(resp.mails) :
              users[resp.uid].validation_code = Some(resp.mails[i].code)

\* ----------------------------------------------------------------- C29
\* The flow whose codes an endpoint consumes.
ConsumedFlow(op) ==
    CASE op = "register_validation" -> "register"
      [] op = "change_email_validation" -> "email"
      [] op = "recover_password_validation" -> "password"

\* C29: a stored code is accepted only by the consuming endpoint of the flow
\* that generated it (register-validate for register and
\* resend-validation-code, change-email-validate for an update that changes
\* the email, recover-password-validate for recover-password); submitted to
\* the endpoint of another flow it is refused with 422 "Validation code is
\* not valid" and the store stays as it was.
C29_AcceptedOnlyByItsFlow ==
    [][ ( /\ resp'.op \in ValidateOps
          /\ resp'.uid # 0
          /\ users[resp'.uid].validation_code = Some(resp'.code)
          /\ ghost[resp'.uid].flow # ConsumedFlow(resp'.op) ) =>
            /\ resp'.status = 422
            /\ resp'.detail = "Validation code is not valid"
            /\ users' = users ]_vars

====
